---- MODULE Spec2Model ----
(***************************************************************************)
(* A model of metadb's data-access layer (src/metadb/data.py): the tables  *)
(* the handlers read and write, each handler as an operator from a         *)
(* database value to a database value, and the specifications that apply   *)
(* the handlers.                                                           *)
(*                                                                         *)
(* A table is a bag of rows: the handlers guard their INSERTs by a SELECT, *)
(* and a bag lets a table hold a row twice when a guard is missing.        *)
(* Timestamps are UTC instants, numbered 1..MaxTime.                       *)
(*                                                                         *)
(* The handlers appear twice: as operators that run a whole handler on a   *)
(* database (a handler is one transaction, "with db.engine.begin()"), and, *)
(* for crashes and concurrent callers, statement by statement (the Tx      *)
(* actions) on a store with PostgreSQL's default isolation, READ COMMITTED:*)
(* the engine of db.py sets no other.                                      *)
(*                                                                         *)
(* Each specification applies the handlers of one part of the layer: the   *)
(* metadata cache, the recording ledger, the item receipts, the registry   *)
(* of tokens, sources and scrapers, and the lookups.                       *)
(***************************************************************************)
EXTENDS Integers, Sequences, FiniteSets, Bags, TLC

VARIABLES
    recording,                \* table recording (mbid)
    recording_redirect,       \* table recording_redirect (mbid, new_mbid)
    recording_meta,           \* table recording_meta (mbid, name, artist_credit, last_updated)
    release_group,            \* table release_group (mbid)
    release_group_meta,       \* table release_group_meta (mbid, name, artist_credit,
                              \*                           first_release_date, last_updated)
    recording_release_group,  \* table recording_release_group (recording_mbid, release_group_mbid)
    item,                     \* table item (id, scraper_id, mbid)
    item_data,                \* table item_data (item_id, data)
    item_id_seq,              \* the sequence behind item.id: the last value handed out
    token_table,              \* table token (token, admin)
    source_table,             \* table source (id, name)
    scraper_table,            \* table scraper (id, source_id, module, mb_type, version,
                              \*                description)
    source_id_seq,            \* the sequence behind source.id
    scraper_id_seq,           \* the sequence behind scraper.id
    tx,                       \* per caller: the handler it runs as a transaction of
                              \* single statements, and what it has not committed
    runner                    \* run_sql_script_without_transaction: where it is in
                              \* its script, its connection and its result

relations == <<recording, recording_redirect, recording_meta, release_group,
               release_group_meta, recording_release_group, item, item_data,
               token_table, source_table, scraper_table, source_id_seq, scraper_id_seq>>

tables == <<relations, item_id_seq>>

-----------------------------------------------------------------------------
(* Bounds and input sets *)

MaxTime == 2

\* The item ids a run hands out: no add_item starts once the sequence is here.
MaxItemId == 2

\* The scrapers a run registers: no add_scraper once the sequence is here.
MaxScraperId == 3

\* The lines of the longest script.
MaxLines == 2

Times == 1..MaxTime

RecordingMbids == {"r1", "r2"}

ReleaseGroupMbids == {"g1", "g2"}

ScraperIds == {1, 2}

\* Two versions of a recording's descriptive fields.
RecordingFields ==
    { [name |-> "n1", artist_credit |-> "a1"],
      [name |-> "n2", artist_credit |-> "a2"] }

\* Two versions of a release group's descriptive fields.
ReleaseGroupFields ==
    { [name |-> "gn1", artist_credit |-> "ga1", first_release_date |-> "d1"],
      [name |-> "gn2", artist_credit |-> "ga2", first_release_date |-> "d2"] }

-----------------------------------------------------------------------------
(* Tables *)

Rows(t) == BagToSet(t)

Insert(t, row) == t (+) SetToBag({row})

\* The number of rows of t that are in the set S of rows.
CountIn(t, S) == BagCardinality([r \in (Rows(t) \cap S) |-> t[r]])

\* UPDATE t SET <all columns of new> WHERE mbid = new.mbid
UpdateByMbid(t, new) ==
    LET hit  == {r \in Rows(t) : r.mbid = new.mbid}
        n    == CountIn(t, hit)
        rest == [r \in (Rows(t) \ hit) |-> t[r]]
    IN  IF n = 0 THEN t ELSE rest (+) [r \in {new} |-> n]

\* fetchone(): the row, as a set of at most one row (the empty set is None).
FetchOne(S) == IF S = {} THEN {} ELSE {CHOOSE r \in S : TRUE}

\* The database a handler works on.
DB == [recording               |-> recording,
       recording_redirect      |-> recording_redirect,
       recording_meta          |-> recording_meta,
       release_group           |-> release_group,
       release_group_meta      |-> release_group_meta,
       recording_release_group |-> recording_release_group,
       item                    |-> item,
       item_data               |-> item_data,
       item_id_seq             |-> item_id_seq,
       token                   |-> token_table,
       source                  |-> source_table,
       scraper                 |-> scraper_table,
       source_id_seq           |-> source_id_seq,
       scraper_id_seq          |-> scraper_id_seq]

\* The tables become those of d.
StoreTables(d) ==
    /\ recording' = d.recording
    /\ recording_redirect' = d.recording_redirect
    /\ recording_meta' = d.recording_meta
    /\ release_group' = d.release_group
    /\ release_group_meta' = d.release_group_meta
    /\ recording_release_group' = d.recording_release_group
    /\ item' = d.item
    /\ item_data' = d.item_data
    /\ token_table' = d.token
    /\ source_table' = d.source
    /\ scraper_table' = d.scraper
    /\ source_id_seq' = d.source_id_seq
    /\ scraper_id_seq' = d.scraper_id_seq

\* A handler run as a whole: its transaction commits, the database becomes d.
Store(d) ==
    /\ StoreTables(d)
    /\ item_id_seq' = d.item_id_seq
    /\ UNCHANGED <<tx, runner>>

-----------------------------------------------------------------------------
(* Metadata reconciliation *)

get_recording_meta(d, mbid) ==
    FetchOne({r \in Rows(d.recording_meta) : r.mbid = mbid})

RecordingMetaRow(rec) ==
    [mbid |-> rec.mbid, name |-> rec.name, artist_credit |-> rec.artist_credit,
     last_updated |-> rec.last_updated]

\* A slip in add_recording_meta: ">" for ">=", so that a tie overwrites.
add_recording_meta_overwrites_ties(d, rec) ==
    LET existing == get_recording_meta(d, rec.mbid)
    IN  IF existing # {}
        THEN IF \E e \in existing : e.last_updated > rec.last_updated
             THEN d
             ELSE [d EXCEPT !.recording_meta = UpdateByMbid(@, RecordingMetaRow(rec))]
        ELSE [d EXCEPT !.recording_meta = Insert(@, RecordingMetaRow(rec))]

add_recording_meta(d, rec) ==
    LET existing == get_recording_meta(d, rec.mbid)
    IN  IF existing # {}
        THEN IF \E e \in existing : e.last_updated >= rec.last_updated
             THEN d
             ELSE [d EXCEPT !.recording_meta = UpdateByMbid(@, RecordingMetaRow(rec))]
        ELSE [d EXCEPT !.recording_meta = Insert(@, RecordingMetaRow(rec))]

get_release_group_meta(d, mbid) ==
    FetchOne({r \in Rows(d.release_group_meta) : r.mbid = mbid})

ReleaseGroupMetaRow(rg) ==
    [mbid |-> rg.mbid, name |-> rg.name, artist_credit |-> rg.artist_credit,
     first_release_date |-> rg.first_release_date, last_updated |-> rg.last_updated]

\* A slip in add_release_group_meta: the timestamp check is missing, an
\* existing row is always overwritten.
add_release_group_meta_always_updates(d, rg) ==
    LET existing_rg == get_release_group_meta(d, rg.mbid)
    IN  IF existing_rg # {}
        THEN [d EXCEPT !.release_group_meta = UpdateByMbid(@, ReleaseGroupMetaRow(rg))]
        ELSE [d EXCEPT !.release_group = Insert(@, [mbid |-> rg.mbid]),
                       !.release_group_meta = Insert(@, ReleaseGroupMetaRow(rg))]

\* A slip in _add_release_group_meta: query_insert_rg is executed after the
\* if, on an update as on an insert.
add_release_group_meta_identity_on_update(d, rg) ==
    LET existing_rg == get_release_group_meta(d, rg.mbid)
    IN  IF existing_rg # {}
        THEN IF \E e \in existing_rg : e.last_updated >= rg.last_updated
             THEN d
             ELSE [d EXCEPT !.release_group = Insert(@, [mbid |-> rg.mbid]),
                            !.release_group_meta = UpdateByMbid(@, ReleaseGroupMetaRow(rg))]
        ELSE [d EXCEPT !.release_group = Insert(@, [mbid |-> rg.mbid]),
                       !.release_group_meta = Insert(@, ReleaseGroupMetaRow(rg))]

add_release_group_meta(d, rg) ==
    LET existing_rg == get_release_group_meta(d, rg.mbid)
    IN  IF existing_rg # {}
        THEN IF \E e \in existing_rg : e.last_updated >= rg.last_updated
             THEN d
             ELSE [d EXCEPT !.release_group_meta = UpdateByMbid(@, ReleaseGroupMetaRow(rg))]
        ELSE [d EXCEPT !.release_group = Insert(@, [mbid |-> rg.mbid]),
                       !.release_group_meta = Insert(@, ReleaseGroupMetaRow(rg))]

\* A slip in add_link_recording_release_group: the existence check is missing.
add_link_always_inserts(d, recording_mbid, release_group_mbid) ==
    [d EXCEPT !.recording_release_group =
        Insert(@, [recording_mbid |-> recording_mbid,
                   release_group_mbid |-> release_group_mbid])]

add_link_recording_release_group(d, recording_mbid, release_group_mbid) ==
    LET link == [recording_mbid |-> recording_mbid,
                 release_group_mbid |-> release_group_mbid]
    IN  IF link \in Rows(d.recording_release_group)
        THEN d
        ELSE [d EXCEPT !.recording_release_group = Insert(@, link)]

\* The loop of cache_musicbrainz_metadata over release_group_map.values(): the
\* map is a function from release group mbids to their meta.
RECURSIVE AddReleaseGroups(_, _, _, _)
AddReleaseGroups(d, recording_mbid, rgmap, todo) ==
    IF todo = {}
    THEN d
    ELSE LET g  == CHOOSE x \in todo : TRUE
             d1 == add_release_group_meta(d, rgmap[g])
             d2 == add_link_recording_release_group(d1, recording_mbid, rgmap[g].mbid)
         IN  AddReleaseGroups(d2, recording_mbid, rgmap, todo \ {g})

\* A slip in cache_musicbrainz_metadata: a recording that is not newer than
\* the stored one ends the call, its release groups are not looked at.
cache_musicbrainz_metadata_gated(d, rec) ==
    IF \E e \in get_recording_meta(d, rec.mbid) : e.last_updated >= rec.last_updated
    THEN d
    ELSE AddReleaseGroups(add_recording_meta(d, rec), rec.mbid,
                          rec.release_group_map, DOMAIN rec.release_group_map)

cache_musicbrainz_metadata(d, rec) ==
    AddReleaseGroups(add_recording_meta(d, rec), rec.mbid,
                     rec.release_group_map, DOMAIN rec.release_group_map)

-----------------------------------------------------------------------------
(* Identities and redirects *)

\* The loop of add_recording_mbids: mbids is the list given, ret the list of
\* the mbids added so far.
RECURSIVE AddRecordingMbidsLoop(_, _, _)
AddRecordingMbidsLoop(d, mbids, ret) ==
    IF mbids = <<>>
    THEN [db |-> d, ret |-> ret]
    ELSE LET mbid == Head(mbids)
         IN  IF [mbid |-> mbid] \in Rows(d.recording)
             THEN AddRecordingMbidsLoop(d, Tail(mbids), ret)
             ELSE AddRecordingMbidsLoop(
                      [d EXCEPT !.recording = Insert(@, [mbid |-> mbid])],
                      Tail(mbids), Append(ret, mbid))

\* A slip in _add_recording_mbids: the check_query is not run, every mbid is
\* inserted and returned.
add_recording_mbids_unchecked(d, mbids) ==
    [db  |-> [d EXCEPT !.recording =
                @ (+) [row \in {[mbid |-> mbids[i]] : i \in DOMAIN mbids} |->
                         Cardinality({i \in DOMAIN mbids : mbids[i] = row.mbid})]],
     ret |-> mbids]

\* Returns the database and the mbids which were added.
add_recording_mbids(d, mbids) == AddRecordingMbidsLoop(d, mbids, <<>>)

\* A slip in musicbrainz_check_mbid_redirect: the check_query is not run.
musicbrainz_check_mbid_redirect_unchecked(d, query_mbid, actual_mbid) ==
    LET row == [mbid |-> query_mbid, new_mbid |-> actual_mbid]
    IN  IF query_mbid = actual_mbid
        THEN d
        ELSE LET d1 == add_recording_mbids(d, <<actual_mbid>>).db
             IN  [d1 EXCEPT !.recording_redirect = Insert(@, row)]

musicbrainz_check_mbid_redirect(d, query_mbid, actual_mbid) ==
    LET row == [mbid |-> query_mbid, new_mbid |-> actual_mbid]
    IN  IF query_mbid = actual_mbid
        THEN d
        ELSE IF row \in Rows(d.recording_redirect)
             THEN d
             ELSE LET d1 == add_recording_mbids(d, <<actual_mbid>>).db
                  IN  [d1 EXCEPT !.recording_redirect = Insert(@, row)]

-----------------------------------------------------------------------------
(* The item ledger *)

\* The payloads of add_item: None, an empty dict, a dict and a string.
Payloads == {"None", "{}", "{'k': 'v'}", "text"}

\* Python's truth value of a payload: None and the empty dict are false.
IsTrue(data) == data \notin {"None", "{}"}

IsDictOrList(data) == data \in {"{}", "{'k': 'v'}"}

\* json.dumps(data, cls=JsonDateTimeEncoder)
json_dumps(data) == IF data = "{}" THEN "json {}" ELSE "json {\"k\": \"v\"}"

\* A slip in add_item_w_connection: the existence check is missing.
add_item_without_check(d, scraper, mbid, data) ==
    LET id == d.item_id_seq + 1
        d1 == [d EXCEPT !.item = Insert(@, [id |-> id, scraper_id |-> scraper.id,
                                            mbid |-> mbid]),
                        !.item_id_seq = id]
        stored == IF IsDictOrList(data) THEN json_dumps(data) ELSE data
    IN  [db  |-> IF IsTrue(data)
                 THEN [d1 EXCEPT !.item_data = Insert(@, [item_id |-> id, data |-> stored])]
                 ELSE d1,
         ret |-> TRUE]

\* Returns the database and whether the item was added.
add_item_w_connection(d, scraper, mbid, data) ==
    LET check_result == {i \in Rows(d.item) : i.mbid = mbid /\ i.scraper_id = scraper.id}
        id == d.item_id_seq + 1
        d1 == [d EXCEPT !.item = Insert(@, [id |-> id, scraper_id |-> scraper.id,
                                            mbid |-> mbid]),
                        !.item_id_seq = id]
        stored == IF IsDictOrList(data) THEN json_dumps(data) ELSE data
    IN  IF check_result = {}
        THEN [db  |-> IF IsTrue(data)
                      THEN [d1 EXCEPT !.item_data =
                                Insert(@, [item_id |-> id, data |-> stored])]
                      ELSE d1,
              ret |-> TRUE]
        ELSE [db |-> d, ret |-> FALSE]

add_item(d, scraper, mbid, data) == add_item_w_connection(d, scraper, mbid, data)

-----------------------------------------------------------------------------
(* Queries *)

\* The parameter mbid of the queries is a set: empty for None, else one mbid.
MbidFilter(mbid, m) == mbid = {} \/ m \in mbid

\* A slip in get_unprocessed_recordings_for_scraper: the redirect clause
\* "AND rr.mbid IS NULL" is missing.
get_unprocessed_recordings_ignoring_redirects(d, scraper, mbid) ==
    { [mbid |-> m.mbid, name |-> m.name, artist_credit |-> m.artist_credit] :
      m \in { x \in Rows(d.recording_meta) :
                /\ [mbid |-> x.mbid] \in Rows(d.recording)
                /\ ~ \E i \in Rows(d.item) :
                        i.mbid = x.mbid /\ i.scraper_id = scraper.id
                /\ MbidFilter(mbid, x.mbid) } }

\* A slip in get_unprocessed_recordings_for_scraper: recording_meta joined by
\* LEFT JOIN, so that a recording without meta gives a row of NULLs.
get_unprocessed_recordings_left_join_meta(d, scraper, mbid) ==
    { [mbid |-> m.mbid, name |-> m.name, artist_credit |-> m.artist_credit] :
      m \in { x \in Rows(d.recording_meta)
                    \cup { [mbid |-> r.mbid, name |-> "NULL", artist_credit |-> "NULL",
                            last_updated |-> 0] : r \in Rows(d.recording) } :
                /\ [mbid |-> x.mbid] \in Rows(d.recording)
                /\ (x.name = "NULL" =>
                        ~ \E y \in Rows(d.recording_meta) : y.mbid = x.mbid)
                /\ ~ \E rr \in Rows(d.recording_redirect) : rr.mbid = x.mbid
                /\ ~ \E i \in Rows(d.item) :
                        i.mbid = x.mbid /\ i.scraper_id = scraper.id
                /\ MbidFilter(mbid, x.mbid) } }

\* A slip in get_unprocessed_recordings_for_scraper: recording_redirect is
\* joined on either column, so that the target of a redirect is left out too.
get_unprocessed_recordings_without_targets(d, scraper, mbid) ==
    { [mbid |-> m.mbid, name |-> m.name, artist_credit |-> m.artist_credit] :
      m \in { x \in Rows(d.recording_meta) :
                /\ [mbid |-> x.mbid] \in Rows(d.recording)
                /\ ~ \E rr \in Rows(d.recording_redirect) :
                        rr.mbid = x.mbid \/ rr.new_mbid = x.mbid
                /\ ~ \E i \in Rows(d.item) :
                        i.mbid = x.mbid /\ i.scraper_id = scraper.id
                /\ MbidFilter(mbid, x.mbid) } }

\* A slip in get_unprocessed_recordings_for_scraper: the item join lacks
\* "AND item.scraper_id = :scraper_id", so that any scraper's item counts.
get_unprocessed_recordings_for_any_scraper(d, scraper, mbid) ==
    { [mbid |-> m.mbid, name |-> m.name, artist_credit |-> m.artist_credit] :
      m \in { x \in Rows(d.recording_meta) :
                /\ [mbid |-> x.mbid] \in Rows(d.recording)
                /\ ~ \E rr \in Rows(d.recording_redirect) : rr.mbid = x.mbid
                /\ ~ \E i \in Rows(d.item) : i.mbid = x.mbid
                /\ MbidFilter(mbid, x.mbid) } }

\* The rows of recording JOIN recording_meta USING (mbid) that have no row of
\* recording_redirect for the mbid and no row of item for the mbid and the
\* scraper.
get_unprocessed_recordings_for_scraper(d, scraper, mbid) ==
    { [mbid |-> m.mbid, name |-> m.name, artist_credit |-> m.artist_credit] :
      m \in { x \in Rows(d.recording_meta) :
                /\ [mbid |-> x.mbid] \in Rows(d.recording)
                /\ ~ \E rr \in Rows(d.recording_redirect) : rr.mbid = x.mbid
                /\ ~ \E i \in Rows(d.item) :
                        i.mbid = x.mbid /\ i.scraper_id = scraper.id
                /\ MbidFilter(mbid, x.mbid) } }

\* A slip in get_unprocessed_release_groups_for_scraper: "WHERE item.mbid IS
\* NULL" is missing, so that processed release groups are returned too.
get_release_groups_for_scraper_with_items(d, scraper, mbid) ==
    { [mbid |-> m.mbid, name |-> m.name, artist_credit |-> m.artist_credit,
       first_release_date |-> m.first_release_date] :
      m \in { x \in Rows(d.release_group_meta) :
                /\ [mbid |-> x.mbid] \in Rows(d.release_group)
                /\ MbidFilter(mbid, x.mbid) } }

get_unprocessed_release_groups_for_scraper(d, scraper, mbid) ==
    { [mbid |-> m.mbid, name |-> m.name, artist_credit |-> m.artist_credit,
       first_release_date |-> m.first_release_date] :
      m \in { x \in Rows(d.release_group_meta) :
                /\ [mbid |-> x.mbid] \in Rows(d.release_group)
                /\ ~ \E i \in Rows(d.item) :
                        i.mbid = x.mbid /\ i.scraper_id = scraper.id
                /\ MbidFilter(mbid, x.mbid) } }

\* The mbids of recording with no row of recording_meta and no row of
\* recording_redirect.
get_recordings_missing_meta(d) ==
    { r.mbid : r \in { x \in Rows(d.recording) :
                         /\ ~ \E m \in Rows(d.recording_meta) : m.mbid = x.mbid
                         /\ ~ \E rr \in Rows(d.recording_redirect) : rr.mbid = x.mbid } }

-----------------------------------------------------------------------------
(* Inputs of cache_musicbrainz_metadata *)

\* The meta of release group g: its fields drawn from F, any timestamp.
ReleaseGroupInputs(g, F) ==
    { [mbid |-> g, name |-> f.name, artist_credit |-> f.artist_credit,
       first_release_date |-> f.first_release_date, last_updated |-> t] :
      f \in F, t \in Times }

\* The release_group_map values over the release groups G: a map takes each of
\* its mbids to a meta with that mbid.
ReleaseGroupMaps(G, F) ==
    UNION { { m \in [gs -> UNION {ReleaseGroupInputs(g, F) : g \in gs}] :
                \A g \in gs : m[g].mbid = g } :
            gs \in SUBSET G }

RecordingInputs(maps) ==
    { [mbid |-> r, name |-> f.name, artist_credit |-> f.artist_credit,
       last_updated |-> t, release_group_map |-> m] :
      r \in RecordingMbids, f \in RecordingFields, t \in Times, m \in maps }

-----------------------------------------------------------------------------
(* Callers *)

Callers == {"c1", "c2"}

\* A caller that runs no handler.  op is the handler, pc the next statement,
\* arg the handler's arguments, seen the rows of the last SELECT, id the item
\* id the INSERT returned, todo the release groups of the map still to do, w
\* the statements executed and not committed, ret what the handler returned.
Idle == [op |-> "none", pc |-> "idle", arg |-> "none", seen |-> {}, id |-> 0,
         todo |-> {}, w |-> <<>>, ret |-> "none"]

\* The script runner before it is called.
NotRunning == [pc |-> "idle", lines |-> <<>>, i |-> 0, connection |-> "none",
               isolation_level |-> 1, executed |-> <<>>, printed |-> "none",
               pending |-> "none", ret |-> "none", raised |-> "none"]

-----------------------------------------------------------------------------
(* The store, statement by statement *)

Ins(table, row) == [kind |-> "insert", table |-> table, row |-> row]

Upd(table, row) == [kind |-> "update", table |-> table, row |-> row]

\* The database d after the statements w.
RECURSIVE Apply(_, _)
Apply(d, w) ==
    IF w = <<>>
    THEN d
    ELSE LET st == Head(w)
         IN  Apply(IF st.kind = "insert"
                   THEN [d EXCEPT ![st.table] = Insert(@, st.row)]
                   ELSE [d EXCEPT ![st.table] = UpdateByMbid(@, st.row)],
                   Tail(w))

\* What a statement of caller c reads under READ COMMITTED: the rows committed
\* by now, and c's own writes.
View(c) == Apply(DB, tx[c].w)

\* The tables with a unique key, as the data model states them: an item per
\* (scraper_id, mbid), a recording per mbid, a recording_meta row per mbid.
UniqueTables == {"item", "recording", "recording_meta"}

UniqueKey(table, row) ==
    IF table = "item" THEN <<row.scraper_id, row.mbid>> ELSE <<row.mbid>>

\* The INSERT st meets a row of d with its unique key: an IntegrityError.
Violates(d, st) ==
    /\ st.kind = "insert"
    /\ st.table \in UniqueTables
    /\ \E r \in Rows(d[st.table]) : UniqueKey(st.table, r) = UniqueKey(st.table, st.row)

\* The statement st of caller c waits for another caller's transaction to end:
\* that one has inserted the same unique key, or updated the same row.
Waits(c, st) ==
    \E c2 \in Callers \ {c} : \E i \in DOMAIN tx[c2].w :
        LET o == tx[c2].w[i]
        IN  /\ o.table = st.table
            /\ o.kind = st.kind
            /\ IF st.kind = "insert"
               THEN /\ st.table \in UniqueTables
                    /\ UniqueKey(st.table, o.row) = UniqueKey(st.table, st.row)
               ELSE o.row.mbid = st.row.mbid

\* The transaction of t ends by an exception: the with block rolls it back.
Failed(t, why) == [t EXCEPT !.pc = "failed", !.w = <<>>, !.ret = why]

\* A slip in the handlers' connections: db.engine.connect() for
\* db.engine.begin(), so that every statement commits as it is executed.
ExecAutocommit(c, t, stmts) ==
    /\ tx' = [tx EXCEPT ![c] = t]
    /\ StoreTables(Apply(DB, stmts))

\* Caller c executes the statements stmts on its connection and goes on as t:
\* inside "with db.engine.begin()" the writes wait for the commit.
Exec(c, t, stmts) ==
    /\ tx' = [tx EXCEPT ![c] = [t EXCEPT !.w = @ \o stmts]]
    /\ UNCHANGED relations

\* One statement step of caller c: it waits, fails on a unique key, or executes.
Run(c, t, stmts) ==
    /\ \A i \in DOMAIN stmts : ~ Waits(c, stmts[i])
    /\ IF \E i \in DOMAIN stmts : Violates(View(c), stmts[i])
       THEN /\ tx' = [tx EXCEPT ![c] = Failed(t, "IntegrityError")]
            /\ UNCHANGED relations
       ELSE Exec(c, t, stmts)
    /\ UNCHANGED runner

CanBegin(c) == tx[c].pc \in {"idle", "done", "failed"}

\* The with block of caller c ends: its transaction commits.
TxCommit(c) ==
    /\ tx[c].pc = "commit"
    /\ StoreTables(Apply(DB, tx[c].w))
    /\ tx' = [tx EXCEPT ![c] = [@ EXCEPT !.pc = "done", !.w = <<>>]]
    /\ UNCHANGED <<item_id_seq, runner>>

\* The process of caller c dies, or the store fails, inside the with block.
Crash(c) ==
    /\ ~ CanBegin(c)
    /\ tx' = [tx EXCEPT ![c] = Failed(@, "crash")]
    /\ UNCHANGED <<tables, runner>>

(* add_item, statement by statement *)

TxBeginAddItem(c, s, m, data) ==
    /\ CanBegin(c)
    /\ item_id_seq < MaxItemId
    /\ tx' = [tx EXCEPT ![c] =
                [Idle EXCEPT !.op = "add_item", !.pc = "check_item",
                             !.arg = [scraper |-> [id |-> s], mbid |-> m, data |-> data]]]
    /\ UNCHANGED <<tables, runner>>

\* A slip in add_item_w_connection: True is returned for an item that exists.
ItemCheckedReturnsTrue(t, check_result) ==
    IF check_result = {}
    THEN [t EXCEPT !.seen = check_result, !.pc = "insert_item"]
    ELSE [t EXCEPT !.seen = check_result, !.pc = "commit", !.ret = "True"]

\* "if not check_result.rowcount: ... else: return False"
ItemChecked(t, check_result) ==
    IF check_result = {}
    THEN [t EXCEPT !.seen = check_result, !.pc = "insert_item"]
    ELSE [t EXCEPT !.seen = check_result, !.pc = "commit", !.ret = "False"]

TxCheckItem(c) ==
    /\ tx[c].pc = "check_item"
    /\ LET a == tx[c].arg
           check_result == {i \in Rows(View(c).item) :
                               i.mbid = a.mbid /\ i.scraper_id = a.scraper.id}
       IN  Run(c, ItemChecked(tx[c], check_result), <<>>)
    /\ UNCHANGED item_id_seq

\* INSERT INTO item ... RETURNING id: the sequence moves whatever becomes of
\* the transaction.
TxInsertItem(c) ==
    /\ tx[c].pc = "insert_item"
    /\ LET a  == tx[c].arg
           id == item_id_seq + 1
       IN  /\ Run(c, [tx[c] EXCEPT !.id = id,
                                   !.pc = IF IsTrue(a.data) THEN "insert_item_data"
                                                            ELSE "commit",
                                   !.ret = IF IsTrue(a.data) THEN @ ELSE "True"],
                  <<Ins("item", [id |-> id, scraper_id |-> a.scraper.id, mbid |-> a.mbid])>>)
           /\ item_id_seq' = id

TxInsertItemData(c) ==
    /\ tx[c].pc = "insert_item_data"
    /\ LET a == tx[c].arg
           stored == IF IsDictOrList(a.data) THEN json_dumps(a.data) ELSE a.data
       IN  Run(c, [tx[c] EXCEPT !.pc = "commit", !.ret = "True"],
               <<Ins("item_data", [item_id |-> tx[c].id, data |-> stored])>>)
    /\ UNCHANGED item_id_seq

(* cache_musicbrainz_metadata, statement by statement *)

TxBeginCache(c, rec) ==
    /\ CanBegin(c)
    /\ tx' = [tx EXCEPT ![c] =
                [Idle EXCEPT !.op = "cache", !.pc = "get_recording_meta", !.arg = rec,
                             !.todo = DOMAIN rec.release_group_map]]
    /\ UNCHANGED <<tables, runner>>

TxGetRecordingMeta(c) ==
    /\ tx[c].pc = "get_recording_meta"
    /\ Run(c, [tx[c] EXCEPT !.seen = get_recording_meta(View(c), tx[c].arg.mbid),
                            !.pc = "add_recording_meta"], <<>>)
    /\ UNCHANGED item_id_seq

\* The statement that follows the meta row existing: none for a row that is
\* not older, an UPDATE for an older row, an INSERT for none.
MetaStatement(table, existing, row) ==
    IF existing # {}
    THEN IF \E e \in existing : e.last_updated >= row.last_updated
         THEN <<>>
         ELSE <<Upd(table, row)>>
    ELSE <<Ins(table, row)>>

\* The statement of the loop that follows a release group: the next release
\* group's, or the end of the with block.
AfterReleaseGroup(todo) == IF todo = {} THEN "commit" ELSE "get_release_group_meta"

TxAddRecordingMeta(c) ==
    /\ tx[c].pc = "add_recording_meta"
    /\ Run(c, [tx[c] EXCEPT !.pc = AfterReleaseGroup(tx[c].todo), !.ret = "None"],
           MetaStatement("recording_meta", tx[c].seen, RecordingMetaRow(tx[c].arg)))
    /\ UNCHANGED item_id_seq

\* The release group the loop is at.
CurrentReleaseGroup(t) == t.arg.release_group_map[CHOOSE g \in t.todo : TRUE]

TxGetReleaseGroupMeta(c) ==
    /\ tx[c].pc = "get_release_group_meta"
    /\ LET existing_rg == get_release_group_meta(View(c), CurrentReleaseGroup(tx[c]).mbid)
       IN  Run(c, [tx[c] EXCEPT !.seen = existing_rg,
                                !.pc = IF existing_rg = {} THEN "insert_release_group"
                                                           ELSE "add_release_group_meta"],
               <<>>)
    /\ UNCHANGED item_id_seq

TxInsertReleaseGroup(c) ==
    /\ tx[c].pc = "insert_release_group"
    /\ Run(c, [tx[c] EXCEPT !.pc = "add_release_group_meta"],
           <<Ins("release_group", [mbid |-> CurrentReleaseGroup(tx[c]).mbid])>>)
    /\ UNCHANGED item_id_seq

TxAddReleaseGroupMeta(c) ==
    /\ tx[c].pc = "add_release_group_meta"
    /\ Run(c, [tx[c] EXCEPT !.pc = "check_link"],
           MetaStatement("release_group_meta", tx[c].seen,
                         ReleaseGroupMetaRow(CurrentReleaseGroup(tx[c]))))
    /\ UNCHANGED item_id_seq

LinkOf(t) == [recording_mbid |-> t.arg.mbid,
              release_group_mbid |-> CurrentReleaseGroup(t).mbid]

TxCheckLink(c) ==
    /\ tx[c].pc = "check_link"
    /\ LET has  == {l \in Rows(View(c).recording_release_group) : l = LinkOf(tx[c])}
           rest == tx[c].todo \ {CHOOSE g \in tx[c].todo : TRUE}
       IN  Run(c, IF has = {}
                  THEN [tx[c] EXCEPT !.seen = has, !.pc = "insert_link"]
                  ELSE [tx[c] EXCEPT !.seen = has, !.todo = rest,
                                     !.pc = AfterReleaseGroup(rest)],
               <<>>)
    /\ UNCHANGED item_id_seq

TxInsertLink(c) ==
    /\ tx[c].pc = "insert_link"
    /\ LET rest == tx[c].todo \ {CHOOSE g \in tx[c].todo : TRUE}
       IN  Run(c, [tx[c] EXCEPT !.todo = rest, !.pc = AfterReleaseGroup(rest)],
               <<Ins("recording_release_group", LinkOf(tx[c]))>>)
    /\ UNCHANGED item_id_seq

(* musicbrainz_check_mbid_redirect, statement by statement *)

\* With query_mbid = actual_mbid the handler returns before any statement.
TxBeginRedirect(c, q, a) ==
    /\ CanBegin(c)
    /\ tx' = [tx EXCEPT ![c] =
                [Idle EXCEPT !.op = "redirect",
                             !.pc = IF q = a THEN "done" ELSE "check_redirect",
                             !.arg = [query_mbid |-> q, actual_mbid |-> a],
                             !.ret = IF q = a THEN "None" ELSE @]]
    /\ UNCHANGED <<tables, runner>>

TxCheckRedirect(c) ==
    /\ tx[c].pc = "check_redirect"
    /\ LET a   == tx[c].arg
           res == {r \in Rows(View(c).recording_redirect) :
                      r.mbid = a.query_mbid /\ r.new_mbid = a.actual_mbid}
       IN  Run(c, [tx[c] EXCEPT !.seen = res, !.ret = "None",
                                !.pc = IF res = {} THEN "check_recording" ELSE "commit"],
               <<>>)
    /\ UNCHANGED item_id_seq

TxCheckRecording(c) ==
    /\ tx[c].pc = "check_recording"
    /\ LET result == {r \in Rows(View(c).recording) : r.mbid = tx[c].arg.actual_mbid}
       IN  Run(c, [tx[c] EXCEPT !.seen = result,
                                !.pc = IF result = {} THEN "insert_recording"
                                                      ELSE "insert_redirect"],
               <<>>)
    /\ UNCHANGED item_id_seq

TxInsertRecording(c) ==
    /\ tx[c].pc = "insert_recording"
    /\ Run(c, [tx[c] EXCEPT !.pc = "insert_redirect"],
           <<Ins("recording", [mbid |-> tx[c].arg.actual_mbid])>>)
    /\ UNCHANGED item_id_seq

TxInsertRedirect(c) ==
    /\ tx[c].pc = "insert_redirect"
    /\ Run(c, [tx[c] EXCEPT !.pc = "commit"],
           <<Ins("recording_redirect", [mbid |-> tx[c].arg.query_mbid,
                                        new_mbid |-> tx[c].arg.actual_mbid])>>)
    /\ UNCHANGED item_id_seq

-----------------------------------------------------------------------------
(* The registry: tokens, sources and scrapers *)

\* What a handler gives its caller: a value (a set of at most one row, the
\* empty set for None or {}), or an exception.
Return(rows) == [raises |-> "none", value |-> rows]

Raise(exception) == [raises |-> exception, value |-> {}]

\* Strings that uuid.UUID(token, version=4) parses, and one it does not.
Uuids == {"u1", "u2"}

TokenStrings == Uuids \cup {"not-a-uuid"}

\* The table t without the rows of S.
Delete(t, S) == [r \in Rows(t) \ S |-> t[r]]

\* The token is the uuid4 drawn inside the handler.
add_token(d, uuid4, admin) ==
    [db  |-> [d EXCEPT !.token = Insert(@, [token |-> uuid4, admin |-> admin])],
     ret |-> uuid4]

remove_token(d, t) ==
    IF t \notin Uuids
    THEN d
    ELSE [d EXCEPT !.token = Delete(@, {r \in Rows(@) : r.token = t})]

get_token(d, t) ==
    IF t \notin Uuids
    THEN Return({})
    ELSE Return(FetchOne({r \in Rows(d.token) : r.token = t}))

SourceNames == {"a", "b"}

add_source(d, name) ==
    LET id == d.source_id_seq + 1
    IN  [db  |-> [d EXCEPT !.source = Insert(@, [id |-> id, name |-> name]),
                           !.source_id_seq = id],
         ret |-> Return({[name |-> name, id |-> id]})]

\* None (the empty set) or the row of the name.
load_source(d, name) == FetchOne({r \in Rows(d.source) : r.name = name})

MbTypes == {"recording", "release_group", "album"}

Versions == {1, 2}

\* A slip in add_scraper: the mb_type check is missing.
add_scraper_of_any_type(d, source, module, mb_type, version, description) ==
    LET id   == d.scraper_id_seq + 1
        data == [source_id |-> source.id, module |-> module, mb_type |-> mb_type,
                 version |-> version, description |-> description, id |-> id]
    IN  [db  |-> [d EXCEPT !.scraper = Insert(@, data), !.scraper_id_seq = id],
         ret |-> Return({data})]

add_scraper(d, source, module, mb_type, version, description) ==
    IF mb_type \notin {"recording", "release_group"}
    THEN [db |-> d, ret |-> Raise("ValueError")]
    ELSE LET id   == d.scraper_id_seq + 1
             data == [source_id |-> source.id, module |-> module, mb_type |-> mb_type,
                      version |-> version, description |-> description, id |-> id]
         IN  [db  |-> [d EXCEPT !.scraper = Insert(@, data), !.scraper_id_seq = id],
              ret |-> Return({data})]

load_scrapers_for_source(d, source) ==
    {r \in Rows(d.scraper) : r.source_id = source.id}

\* A slip in load_latest_scraper_for_source: "ORDER BY version DESC" is
\* missing, so that LIMIT 1 gives any scraper of the source.
load_any_scraper_for_source(d, source) ==
    IF source = {}
    THEN {Raise("TypeError")}
    ELSE LET rows == UNION {load_scrapers_for_source(d, src) : src \in source}
         IN  IF rows = {} THEN {Return({})} ELSE {Return({r}) : r \in rows}

\* The results the call may give.  source is what load_source gave: None (the
\* empty set), where source["id"] raises TypeError, or a row.  ORDER BY version
\* DESC LIMIT 1 gives one of the rows with the greatest version.
load_latest_scraper_for_source(d, source) ==
    IF source = {}
    THEN {Raise("TypeError")}
    ELSE LET rows  == UNION {load_scrapers_for_source(d, src) : src \in source}
             first == {r \in rows : \A o \in rows : r.version >= o.version}
         IN  IF rows = {} THEN {Return({})} ELSE {Return({r}) : r \in first}

\* item LEFT JOIN item_data for the mbid and the scraper.
ItemWithData(d, scraper_id, mbid) ==
    LET items == {i \in Rows(d.item) : i.mbid = mbid /\ i.scraper_id = scraper_id}
    IN  UNION { IF \E x \in Rows(d.item_data) : x.item_id = i.id
                THEN { [id |-> i.id, mbid |-> i.mbid, data |-> x.data] :
                       x \in {y \in Rows(d.item_data) : y.item_id = i.id} }
                ELSE { [id |-> i.id, mbid |-> i.mbid, data |-> "NULL"] } :
                i \in items }

\* The results the call may give: scraper["id"] raises TypeError for the
\* scraper None.
load_item(d, mbid, source_name) ==
    LET source == load_source(d, source_name)
    IN  UNION { IF sc.raises # "none"
                THEN {sc}
                ELSE IF sc.value = {}
                     THEN {Raise("TypeError")}
                     ELSE LET rows == UNION {ItemWithData(d, x.id, mbid) : x \in sc.value}
                          IN  IF rows = {} THEN {Return({})}
                                           ELSE {Return({r}) : r \in rows} :
                sc \in load_latest_scraper_for_source(d, source) }

-----------------------------------------------------------------------------
(* Specifications *)

Init ==
    /\ recording = EmptyBag
    /\ recording_redirect = EmptyBag
    /\ recording_meta = EmptyBag
    /\ release_group = EmptyBag
    /\ release_group_meta = EmptyBag
    /\ recording_release_group = EmptyBag
    /\ item = EmptyBag
    /\ item_data = EmptyBag
    /\ item_id_seq = 0
    /\ token_table = EmptyBag
    /\ source_table = EmptyBag
    /\ scraper_table = EmptyBag
    /\ source_id_seq = 0
    /\ scraper_id_seq = 0
    /\ tx = [c \in Callers |-> Idle]
    /\ runner = NotRunning

vars == <<tables, tx, runner>>

\* Recordings with a map over both release groups, whose fields are the first
\* version.
MetaInputs ==
    RecordingInputs(ReleaseGroupMaps(ReleaseGroupMbids,
        {f \in ReleaseGroupFields : f.name = "gn1"}))

CacheMetadata ==
    \E rec \in MetaInputs : Store(cache_musicbrainz_metadata(DB, rec))

NextMeta == CacheMetadata

\* The metadata cache: cache_musicbrainz_metadata calls for recordings with up
\* to two release groups.
SpecMeta == Init /\ [][NextMeta]_vars

\* Recordings with a map of at most the release group g1, in both versions of
\* its fields.
UpsertInputs == RecordingInputs(ReleaseGroupMaps({"g1"}, ReleaseGroupFields))

CacheUpsert ==
    \E rec \in UpsertInputs : Store(cache_musicbrainz_metadata(DB, rec))

NextUpsert == CacheUpsert

\* The meta upserts: cache_musicbrainz_metadata calls that reconcile a
\* recording and at most one release group, with every version of their fields.
SpecUpsert == Init /\ [][NextUpsert]_vars

\* The lists of one or two recording mbids.
MbidLists ==
    { <<a>> : a \in RecordingMbids } \cup
    { <<a, b>> : a \in RecordingMbids, b \in RecordingMbids }

AddRecordingMbids ==
    \E mbids \in MbidLists : Store(add_recording_mbids(DB, mbids).db)

CheckMbidRedirect ==
    \E q \in RecordingMbids, a \in RecordingMbids :
        Store(musicbrainz_check_mbid_redirect(DB, q, a))

CacheRecording ==
    \E rec \in RecordingInputs({[g \in {} |-> g]}) :
        Store(cache_musicbrainz_metadata(DB, rec))

AddReceipt ==
    \E s \in ScraperIds, m \in RecordingMbids :
        Store(add_item(DB, [id |-> s], m, "None").db)

Next ==
    \/ AddRecordingMbids
    \/ CheckMbidRedirect
    \/ CacheRecording
    \/ AddReceipt

\* The ledger of recordings: identities, redirects, recording meta and the
\* receipts of two scrapers, which the work queue queries read.  Receipts carry
\* no payload here and recordings no release groups (see SpecItems, SpecMeta).
Spec == Init /\ [][Next]_vars

\* The mbids items are recorded for: a recording and a release group.
ItemMbids == {"r1", "g1"}

AddItem ==
    \E s \in ScraperIds, m \in ItemMbids, data \in Payloads :
        Store(add_item(DB, [id |-> s], m, data).db)

NextItems == AddItem

\* The item ledger: add_item calls of two scrapers with every payload.
SpecItems == Init /\ [][NextItems]_vars

\* One caller, whose handlers may die at any statement: add_item with and
\* without a payload, cache_musicbrainz_metadata of r1 with at most the release
\* group g1, and redirects of r1.
CrashRecordings ==
    { rec \in UpsertInputs :
        /\ rec.mbid = "r1"
        /\ rec.name = "n1"
        /\ \A g \in DOMAIN rec.release_group_map : rec.release_group_map[g].name = "gn1" }

NextCrash ==
    \/ \E data \in {"None", "{'k': 'v'}"} : TxBeginAddItem("c1", 1, "r1", data)
    \/ \E rec \in CrashRecordings : TxBeginCache("c1", rec)
    \/ \E a \in RecordingMbids : TxBeginRedirect("c1", "r1", a)
    \/ TxCheckItem("c1")
    \/ TxInsertItem("c1")
    \/ TxInsertItemData("c1")
    \/ TxGetRecordingMeta("c1")
    \/ TxAddRecordingMeta("c1")
    \/ TxGetReleaseGroupMeta("c1")
    \/ TxInsertReleaseGroup("c1")
    \/ TxAddReleaseGroupMeta("c1")
    \/ TxCheckLink("c1")
    \/ TxInsertLink("c1")
    \/ TxCheckRedirect("c1")
    \/ TxCheckRecording("c1")
    \/ TxInsertRecording("c1")
    \/ TxInsertRedirect("c1")
    \/ TxCommit("c1")
    \/ Crash("c1")

SpecCrash == Init /\ [][NextCrash]_vars

\* Two callers that run add_item for r1 at the same time.
NextItemsTx ==
    \E c \in Callers :
        \/ \E s \in ScraperIds, data \in {"None", "{'k': 'v'}"} :
              TxBeginAddItem(c, s, "r1", data)
        \/ TxCheckItem(c)
        \/ TxInsertItem(c)
        \/ TxInsertItemData(c)
        \/ TxCommit(c)

SpecItemsTx == Init /\ [][NextItemsTx]_vars

\* The upserts that race: r1 without release groups, at one timestamp more than
\* Times, so that two upserts can both be newer than a stored row.
RaceRecordings ==
    { [mbid |-> "r1", name |-> f.name, artist_credit |-> f.artist_credit,
       last_updated |-> t, release_group_map |-> [g \in {} |-> g]] :
      f \in RecordingFields, t \in 1..(MaxTime + 1) }

\* Two callers that run cache_musicbrainz_metadata for r1 at the same time.
NextMetaTx ==
    \E c \in Callers :
        \/ \E rec \in RaceRecordings : TxBeginCache(c, rec)
        \/ TxGetRecordingMeta(c)
        \/ TxAddRecordingMeta(c)
        \/ TxCommit(c)

SpecMetaTx == Init /\ [][NextMetaTx]_vars

AddToken ==
    \E uuid4 \in Uuids, admin \in BOOLEAN :
        /\ ~ \E r \in Rows(token_table) : r.token = uuid4
        /\ Store(add_token(DB, uuid4, admin).db)

RemoveToken == \E t \in TokenStrings : Store(remove_token(DB, t))

\* Each source is registered once.
AddSource ==
    \E name \in SourceNames :
        /\ load_source(DB, name) = {}
        /\ Store(add_source(DB, name).db)

AddScraper ==
    \E source \in Rows(source_table), mb_type \in MbTypes, version \in Versions :
        /\ scraper_id_seq < MaxScraperId
        /\ Store(add_scraper(DB, source, "module", mb_type, version, "description").db)

NextRegistry ==
    \/ AddToken
    \/ RemoveToken
    \/ AddSource
    \/ AddScraper

\* The registry of tokens, sources and scrapers.
SpecRegistry == Init /\ [][NextRegistry]_vars

\* The first scraper of a source is registered.
AddFirstScraper ==
    \E source \in Rows(source_table), version \in Versions :
        /\ load_scrapers_for_source(DB, source) = {}
        /\ Store(add_scraper(DB, source, "module", "recording", version, "description").db)

\* add_item by a registered scraper.
AddScraperItem ==
    \E sc \in Rows(scraper_table), data \in {"None", "text"} :
        /\ item_id_seq < MaxItemId
        /\ Store(add_item(DB, sc, "r1", data).db)

NextLookups ==
    \/ AddToken
    \/ RemoveToken
    \/ AddSource
    \/ AddFirstScraper
    \/ AddScraperItem

\* What the lookups read: tokens, sources with at most one scraper each, and
\* the items of the scrapers.
SpecLookups == Init /\ [][NextLookups]_vars

AddReceiptWithData ==
    \E s \in ScraperIds, m \in ItemMbids, data \in {"None", "text"} :
        Store(add_item(DB, [id |-> s], m, data).db)

CacheLinkedRecording ==
    \E rec \in CrashRecordings : Store(cache_musicbrainz_metadata(DB, rec))

NextReceipts ==
    \/ AddReceiptWithData
    \/ CacheLinkedRecording
    \/ AddRecordingMbids
    \/ CheckMbidRedirect

\* The receipts of two scrapers for a recording and a release group, among
\* the handlers that write what the work queue queries read.
SpecReceipts == Init /\ [][NextReceipts]_vars

\* Three recordings, so that redirects can chain.
ChainMbids == {"r1", "r2", "r3"}

ChainRedirect ==
    \E q \in ChainMbids, a \in ChainMbids :
        Store(musicbrainz_check_mbid_redirect(DB, q, a))

ChainIdentity == \E m \in ChainMbids : Store(add_recording_mbids(DB, <<m>>).db)

ChainMeta ==
    \E m \in ChainMbids :
        Store(cache_musicbrainz_metadata(DB,
                  [mbid |-> m, name |-> "n1", artist_credit |-> "a1", last_updated |-> 1,
                   release_group_map |-> [g \in {} |-> g]]))

ChainReceipt == \E m \in ChainMbids : Store(add_item(DB, [id |-> 1], m, "None").db)

NextChains ==
    \/ ChainRedirect
    \/ ChainIdentity
    \/ ChainMeta
    \/ ChainReceipt

\* The ledger of three recordings with the receipts of scraper 1.
SpecChains == Init /\ [][NextChains]_vars

-----------------------------------------------------------------------------
(* The script runner (src/metadb/db.py) *)

\* A line is its characters.  The lines of the scripts: an empty one, a
\* comment, a lone dash, a comment after a blank, and a statement.
ScriptLines == { <<>>, <<"-", "-", "c">>, <<"-">>, <<" ", "-", "-">>, <<"s">> }

RECURSIVE ScriptsOfLength(_)
ScriptsOfLength(n) ==
    IF n = 0
    THEN {<<>>}
    ELSE {Append(sc, line) : sc \in ScriptsOfLength(n - 1), line \in ScriptLines}

\* sql.read().splitlines() of the scripts up to MaxLines lines.
Scripts == UNION {ScriptsOfLength(n) : n \in 0..MaxLines}

\* line.startswith("--")
StartsWithComment(line) == Len(line) >= 2 /\ line[1] = "-" /\ line[2] = "-"

\* "if line and not line.startswith("--")"
IsExecuted(line) == line # <<>> /\ ~ StartsWithComment(line)

\* What connection.execute(line) may do: return, or raise one of sqlalchemy's
\* DBAPI errors: ProgrammingError for a syntax error, IntegrityError for a
\* constraint violation, OperationalError for a lost connection.
Outcomes == {"ok", "ProgrammingError", "IntegrityError", "OperationalError"}

\* engine.connect(), set_isolation_level(0), splitlines().
RunScript ==
    /\ runner.pc \in {"idle", "done"}
    /\ \E lines \in Scripts :
         runner' = [NotRunning EXCEPT !.pc = "loop", !.lines = lines, !.i = 1,
                                      !.connection = "open", !.isolation_level = 0]
    /\ UNCHANGED <<tables, tx>>

\* One turn of "for line in lines", or the end of the try block.  The error of
\* a line that the except clause does not name leaves through finally.
ScriptLine ==
    /\ runner.pc = "loop"
    /\ IF runner.i > Len(runner.lines)
       THEN runner' = [runner EXCEPT !.pc = "finally", !.pending = "True"]
       ELSE IF ~ IsExecuted(runner.lines[runner.i])
            THEN runner' = [runner EXCEPT !.i = @ + 1]
            ELSE \E outcome \in Outcomes :
                   LET r == [runner EXCEPT !.executed = Append(@, runner.i)]
                   IN  runner' =
                         CASE outcome = "ok" -> [r EXCEPT !.i = @ + 1]
                           [] outcome = "ProgrammingError" ->
                                [r EXCEPT !.pc = "finally", !.printed = outcome,
                                          !.pending = "False"]
                           [] OTHER ->
                                [r EXCEPT !.pc = "finally", !.raised = outcome]
    /\ UNCHANGED <<tables, tx>>

\* finally: set_isolation_level(1) and close(), then the return or the raise
\* that was pending.
ScriptFinally ==
    /\ runner.pc = "finally"
    /\ runner' = [runner EXCEPT !.pc = "done", !.isolation_level = 1,
                                !.connection = "closed", !.ret = runner.pending]
    /\ UNCHANGED <<tables, tx>>

NextScript ==
    \/ RunScript
    \/ ScriptLine
    \/ ScriptFinally

\* run_sql_script_without_transaction on scripts of up to MaxLines lines.
SpecScript == Init /\ [][NextScript]_vars

-----------------------------------------------------------------------------
(* The inputs the claims range over *)

EmptyMap == [g \in {} |-> g]

\* A meta upsert of a recording: a recording without release groups.
RecordingUpserts == RecordingInputs({EmptyMap})

ReleaseGroupUpserts ==
    UNION {ReleaseGroupInputs(g, ReleaseGroupFields) : g \in ReleaseGroupMbids}

\* The descriptive fields and the timestamp a meta row or an upsert carries.
\* A row of the meta table t for mbid with a timestamp at or after time.
StoredAtOrAfter(t, mbid, time) ==
    \E r \in Rows(t) : r.mbid = mbid /\ r.last_updated >= time

\* In a step no meta row disappears and no stored last_updated decreases.
LastUpdatedGrows(t, tNext) ==
    \A r \in Rows(t) :
        /\ \E q \in Rows(tNext) : q.mbid = r.mbid
        /\ \A q \in Rows(tNext) : q.mbid = r.mbid => q.last_updated >= r.last_updated

-----------------------------------------------------------------------------
(* C1 *)

\* An upsert whose timestamp is not after the stored one changes nothing, an
\* upsert that changes an existing row is strictly newer than it, and the same
\* upsert applied twice is the upsert applied once.
C1_Upserts ==
    /\ \A u \in RecordingUpserts :
         LET d1 == add_recording_meta(DB, u)
         IN  /\ StoredAtOrAfter(recording_meta, u.mbid, u.last_updated) => d1 = DB
             /\ \A r \in Rows(recording_meta) :
                    (r.mbid = u.mbid /\ d1 # DB) => u.last_updated > r.last_updated
             /\ add_recording_meta(d1, u) = d1
    /\ \A u \in ReleaseGroupUpserts :
         LET d1 == add_release_group_meta(DB, u)
         IN  /\ StoredAtOrAfter(release_group_meta, u.mbid, u.last_updated) => d1 = DB
             /\ \A r \in Rows(release_group_meta) :
                    (r.mbid = u.mbid /\ d1 # DB) => u.last_updated > r.last_updated
             /\ add_release_group_meta(d1, u) = d1

\* C1: a meta row is overwritten only by a strictly newer upsert; an upsert with
\* an equal or older timestamp returns normally and leaves the database as it
\* was; an upsert applied twice is the upsert applied once; and the stored
\* last_updated of an mbid never decreases.
C1_StaleUpsertIsNoOp ==
    /\ []C1_Upserts
    /\ [][/\ LastUpdatedGrows(recording_meta, recording_meta')
          /\ LastUpdatedGrows(release_group_meta, release_group_meta')]_vars

\* A recording and a release group each have a meta row that was overwritten by
\* a newer upsert, so that older upserts and ties exist for both.
C1_Witness ==
    /\ \E r \in Rows(recording_meta) : r.last_updated > 1
    /\ \E r \in Rows(release_group_meta) : r.last_updated > 1

-----------------------------------------------------------------------------
(* C2 *)

\* C2: for upserts u1, u2 of one mbid with u1 older than u2, u2 then u1 gives
\* the database that u2 alone gives, for recordings and for release groups.
C2_NewerThenOlder ==
    /\ \A u1, u2 \in RecordingUpserts :
         (u1.mbid = u2.mbid /\ u1.last_updated < u2.last_updated) =>
            add_recording_meta(add_recording_meta(DB, u2), u1) = add_recording_meta(DB, u2)
    /\ \A u1, u2 \in ReleaseGroupUpserts :
         (u1.mbid = u2.mbid /\ u1.last_updated < u2.last_updated) =>
            add_release_group_meta(add_release_group_meta(DB, u2), u1)
                = add_release_group_meta(DB, u2)

\* Both tables hold a row at the first timestamp: a newer upsert overwrites it
\* and an older one then meets the newer row.
C2_Witness ==
    /\ \E r \in Rows(recording_meta) : r.last_updated = 1
    /\ \E r \in Rows(release_group_meta) : r.last_updated = 1

-----------------------------------------------------------------------------
(* C3 *)

RECURSIVE ApplyRecordingUpserts(_, _)
ApplyRecordingUpserts(d, us) ==
    IF us = <<>> THEN d
    ELSE ApplyRecordingUpserts(add_recording_meta(d, Head(us)), Tail(us))

RECURSIVE ApplyReleaseGroupUpserts(_, _)
ApplyReleaseGroupUpserts(d, us) ==
    IF us = <<>> THEN d
    ELSE ApplyReleaseGroupUpserts(add_release_group_meta(d, Head(us)), Tail(us))

\* The orders of a set of upserts: the sequences that hold each of them once.
Orders(S) ==
    { o \in [1..Cardinality(S) -> S] : \A x \in S : \E i \in DOMAIN o : o[i] = x }

\* One order of S, which every other order is compared with.
FirstOrder(S) == CHOOSE o \in Orders(S) : TRUE

\* The sets of two or three upserts drawn from U, all of one mbid.
UpsertSets(U) ==
    { S \in SUBSET U :
        /\ Cardinality(S) \in {2, 3}
        /\ \A a, b \in S : a.mbid = b.mbid }

\* No two upserts of S tie on last_updated.
NoTies(S) == \A a, b \in S : a.last_updated = b.last_updated => a = b

-----------------------------------------------------------------------------
(* C7 *)

\* What cache_musicbrainz_metadata leaves behind for rec in d: a meta row of the
\* recording at or after rec's timestamp and, for every release group of the
\* map, one identity row, one meta row at or after the entry's timestamp and
\* one link to the recording.
Cached(d, rec) ==
    /\ StoredAtOrAfter(d.recording_meta, rec.mbid, rec.last_updated)
    /\ CountIn(d.recording_meta, {r \in Rows(d.recording_meta) : r.mbid = rec.mbid}) = 1
    /\ \A g \in DOMAIN rec.release_group_map :
         /\ CountIn(d.release_group, {[mbid |-> g]}) = 1
         /\ CountIn(d.release_group_meta,
                    {r \in Rows(d.release_group_meta) : r.mbid = g}) = 1
         /\ StoredAtOrAfter(d.release_group_meta, g,
                            rec.release_group_map[g].last_updated)
         /\ CountIn(d.recording_release_group,
                    {[recording_mbid |-> rec.mbid, release_group_mbid |-> g]}) = 1

\* C7: after cache_musicbrainz_metadata(rec) the recording has its meta row and
\* every release group of the map has one identity row, one meta row and one
\* link to the recording; and a call whose recording and release groups are all
\* stored already with timestamps at or after the call's (as they are after a
\* first call with the same or newer timestamps) changes no table.
C7_CacheMetadata ==
    \A rec \in MetaInputs :
        /\ Cached(cache_musicbrainz_metadata(DB, rec), rec)
        /\ Cached(DB, rec) => cache_musicbrainz_metadata(DB, rec) = DB

\* A recording linked to two release groups, the recording and both release
\* groups stored at the last timestamp: later calls for them are older or equal.
C7_Witness ==
    \E r \in RecordingMbids :
        /\ StoredAtOrAfter(recording_meta, r, MaxTime)
        /\ \A g \in ReleaseGroupMbids :
             /\ StoredAtOrAfter(release_group_meta, g, MaxTime)
             /\ [recording_mbid |-> r, release_group_mbid |-> g]
                    \in Rows(recording_release_group)

-----------------------------------------------------------------------------
(* C4 *)

ItemsOf(d, s, m) == {i \in Rows(d.item) : i.scraper_id = s /\ i.mbid = m}

\* C4: a (scraper_id, mbid) pair has at most one item row, an item id has one
\* item row and at most one item_data row, and add_item for a pair that has an
\* item returns False and leaves the database as it was, whatever the payload.
C4_OneItemPerPair ==
    /\ \A s \in ScraperIds, m \in ItemMbids :
         /\ CountIn(item, ItemsOf(DB, s, m)) <= 1
         /\ ItemsOf(DB, s, m) # {} =>
               \A data \in Payloads :
                   LET r == add_item(DB, [id |-> s], m, data)
                   IN  r.ret = FALSE /\ r.db = DB
    /\ \A i \in Rows(item) :
         /\ CountIn(item, {j \in Rows(item) : j.id = i.id}) = 1
         /\ CountIn(item_data, {x \in Rows(item_data) : x.item_id = i.id}) <= 1

\* Every pair has its item, one of them with a payload and one without.
C4_Witness ==
    /\ \A s \in ScraperIds, m \in ItemMbids : ItemsOf(DB, s, m) # {}
    /\ \E i \in Rows(item) : \E x \in Rows(item_data) : x.item_id = i.id
    /\ \E i \in Rows(item) : ~ \E x \in Rows(item_data) : x.item_id = i.id

-----------------------------------------------------------------------------
(* C5 *)

\* The mbids of unprocessedRecordings(S) in database d.
UnprocessedMbids(d, s) ==
    { row.mbid : row \in get_unprocessed_recordings_for_scraper(d, [id |-> s], {}) }

Redirected(d, mbid) == \E rr \in Rows(d.recording_redirect) : rr.mbid = mbid

Unprocessed(s) == UnprocessedMbids(DB, s)

HasRedirect(mbid) == Redirected(DB, mbid)

\* After musicbrainz_check_mbid_redirect(q, a) with q # a, q has a redirect row
\* and is in no scraper's unprocessed recordings.
C5_AfterRedirect ==
    \A q \in RecordingMbids, a \in RecordingMbids :
        q # a =>
            LET d1 == musicbrainz_check_mbid_redirect(DB, q, a)
            IN  /\ Redirected(d1, q)
                /\ \A s \in ScraperIds : q \notin UnprocessedMbids(d1, s)

\* C5: once musicbrainz_check_mbid_redirect(A, B) with A # B has run, A has a
\* redirect row, and an mbid with a redirect row keeps it and is in no scraper's
\* unprocessed recordings, in every later state, whatever runs.
C5_RedirectedStaysOut ==
    /\ []C5_AfterRedirect
    /\ [][\A m \in RecordingMbids :
            HasRedirect(m) =>
                /\ HasRedirect(m)'
                /\ \A s \in ScraperIds : m \notin Unprocessed(s)']_vars

\* r1 has a redirect to r2 and is a known recording with meta that scraper 1
\* has no item for (so only the redirect keeps it out), and r2 is unprocessed
\* for scraper 1 and processed by scraper 2.
C5_Witness ==
    /\ [mbid |-> "r1", new_mbid |-> "r2"] \in Rows(recording_redirect)
    /\ [mbid |-> "r1"] \in Rows(recording)
    /\ \E m \in Rows(recording_meta) : m.mbid = "r1"
    /\ ItemsOf(DB, 1, "r1") = {}
    /\ "r2" \in Unprocessed(1)
    /\ ItemsOf(DB, 2, "r2") # {}

-----------------------------------------------------------------------------
(* C10 *)

\* The known recordings that have no meta row.
WithoutMeta ==
    { r.mbid : r \in { x \in Rows(recording) :
                         ~ \E m \in Rows(recording_meta) : m.mbid = x.mbid } }

\* C10 as claimed: a known recording without meta is in no scraper's
\* unprocessed recordings and is in get_recordings_missing_meta().
C10_NoMetaIsMissingMeta ==
    \A r \in WithoutMeta :
        /\ \A s \in ScraperIds : r \notin Unprocessed(s)
        /\ r \in get_recordings_missing_meta(DB)

\* C10 amended: a known recording without meta is in no scraper's unprocessed
\* recordings, and is in get_recordings_missing_meta() exactly when it has no
\* redirect row.
C10_NoMetaIsMissingMetaUnlessRedirected ==
    \A r \in WithoutMeta :
        /\ \A s \in ScraperIds : r \notin Unprocessed(s)
        /\ r \in get_recordings_missing_meta(DB) <=> ~ HasRedirect(r)

\* Two known recordings without meta and without items, one with a redirect
\* row and one without.
C10_Witness ==
    /\ WithoutMeta = RecordingMbids
    /\ item = EmptyBag
    /\ HasRedirect("r1")
    /\ ~ HasRedirect("r2")

-----------------------------------------------------------------------------
(* C6: a handler's writes become visible together or not at all *)

\* The database that the handler of transaction t makes of d when it runs
\* whole; the id of its item is the one its INSERT drew from the sequence.
HandlerResult(d, t) ==
    CASE t.op = "add_item" ->
           [add_item([d EXCEPT !.item_id_seq = t.id - 1],
                     t.arg.scraper, t.arg.mbid, t.arg.data).db
               EXCEPT !.item_id_seq = d.item_id_seq]
      [] t.op = "cache" -> cache_musicbrainz_metadata(d, t.arg)
      [] t.op = "redirect" ->
           musicbrainz_check_mbid_redirect(d, t.arg.query_mbid, t.arg.actual_mbid)
      [] OTHER -> d

LinkHasMeta ==
    \A l \in Rows(recording_release_group) :
        \E m \in Rows(release_group_meta) : m.mbid = l.release_group_mbid

RedirectIsKnown ==
    \A r \in Rows(recording_redirect) : \E x \in Rows(recording) : x.mbid = r.new_mbid

PayloadIsStored ==
    /\ \A x \in Rows(item_data) : \E i \in Rows(item) : i.id = x.item_id
    /\ \A c \in Callers :
         (/\ tx[c].op = "add_item"
          /\ tx[c].pc = "done"
          /\ tx[c].ret = "True"
          /\ IsTrue(tx[c].arg.data))
         => /\ \E i \in Rows(item) : i.id = tx[c].id
            /\ \E x \in Rows(item_data) : x.item_id = tx[c].id

\* The rows change only as a transaction commits, and then by all that its
\* handler writes: a step that is a crash, or any statement, changes none.
AllOrNothing ==
    relations' # relations =>
        \E c \in Callers :
            /\ tx[c].pc = "commit"
            /\ tx'[c].pc = "done"
            /\ DB' = HandlerResult(DB, tx[c])

\* C6: musicbrainz_check_mbid_redirect, cache_musicbrainz_metadata and add_item
\* are atomic: the rows change only at a commit, and then to what the whole
\* handler makes of them, so that a handler aborted after any prefix of its
\* statements leaves none of its writes. In every reachable state every link
\* has a release_group_meta row for its release group, every item created with
\* a payload has its item_data row, and every redirect's new_mbid is a known
\* recording.
C6_Atomic ==
    /\ [](LinkHasMeta /\ RedirectIsKnown /\ PayloadIsStored)
    /\ [][AllOrNothing]_vars

\* add_item with a payload crashed after its INSERT INTO item, leaving no row;
\* cache_musicbrainz_metadata and the redirect of r1 have committed theirs.
C6_Witness ==
    /\ tx["c1"].op = "add_item"
    /\ tx["c1"].ret = "crash"
    /\ tx["c1"].id = item_id_seq
    /\ IsTrue(tx["c1"].arg.data)
    /\ item = EmptyBag
    /\ item_data = EmptyBag
    /\ recording_release_group # EmptyBag
    /\ recording_redirect # EmptyBag

-----------------------------------------------------------------------------
(* C8: add_item by callers at the same time *)

ReturnedTrue(s, m) ==
    { c \in Callers : /\ tx[c].op = "add_item"
                      /\ tx[c].pc = "done"
                      /\ tx[c].ret = "True"
                      /\ tx[c].arg.scraper.id = s
                      /\ tx[c].arg.mbid = m }

AtMostOneItem ==
    \A s \in ScraperIds, m \in RecordingMbids :
        /\ CountIn(item, ItemsOf(DB, s, m)) <= 1
        /\ CountIn(item_data, {x \in Rows(item_data) :
                                  \E i \in ItemsOf(DB, s, m) : i.id = x.item_id}) <= 1
        /\ Cardinality(ReturnedTrue(s, m)) <= 1

\* A caller returns True only as it commits the first item of its pair.
TrueOnlyForTheFirst ==
    \A c \in Callers :
        (tx[c].op = "add_item" /\ tx[c].pc = "commit" /\ tx'[c].pc = "done"
            /\ tx[c].ret = "True")
        => LET a == tx[c].arg
           IN  /\ ItemsOf(DB, a.scraper.id, a.mbid) = {}
               /\ ItemsOf(DB', a.scraper.id, a.mbid) =
                     {[id |-> tx[c].id, scraper_id |-> a.scraper.id, mbid |-> a.mbid]}

-----------------------------------------------------------------------------
(* C9: cache_musicbrainz_metadata by callers at the same time *)

\* C9: when callers upsert the metadata of one mbid at the same time, no update
\* is lost: once all of them have completed, exactly one recording_meta row
\* exists for the mbid, and its last_updated is not below that of any of the
\* completed upserts.
C9_NoLostUpdate ==
    (\A c \in Callers : tx[c].op = "cache" /\ tx[c].pc = "done") =>
        LET rows == get_recording_meta(DB, "r1")
        IN  /\ CountIn(recording_meta, rows) = 1
            /\ \A c \in Callers, e \in rows : e.last_updated >= tx[c].arg.last_updated

-----------------------------------------------------------------------------
(* C11: the work queue of a scraper is its own *)

\* R is a known recording with recording_meta and without a redirect.
Workable(d, m) ==
    /\ [mbid |-> m] \in Rows(d.recording)
    /\ get_recording_meta(d, m) # {}
    /\ ~ Redirected(d, m)

\* C11: for a known recording R with recording_meta and no redirect,
\* add_item(S, R) takes R, and nothing else, out of the unprocessed recordings
\* of S and leaves the unprocessed recordings of every other scraper S2 as they
\* were: R is in the unprocessed recordings of S2 as long as S2 has no item
\* for R.
C11_PerScraper ==
    /\ \A s2 \in ScraperIds, m \in RecordingMbids :
         (Workable(DB, m) /\ ItemsOf(DB, s2, m) = {}) => m \in Unprocessed(s2)
    /\ \A s \in ScraperIds, m \in RecordingMbids, data \in Payloads :
         Workable(DB, m) =>
            LET d1 == add_item(DB, [id |-> s], m, data).db
            IN  /\ UnprocessedMbids(d1, s) = Unprocessed(s) \ {m}
                /\ \A s2 \in ScraperIds \ {s} :
                     /\ get_unprocessed_recordings_for_scraper(d1, [id |-> s2], {})
                          = get_unprocessed_recordings_for_scraper(DB, [id |-> s2], {})
                     /\ ItemsOf(d1, s2, m) = {} => m \in UnprocessedMbids(d1, s2)

\* Scraper 1 has processed r1, scraper 2 has not: r1 is unprocessed for
\* scraper 2 only.
C11_Witness ==
    /\ Workable(DB, "r1")
    /\ ItemsOf(DB, 1, "r1") # {}
    /\ ItemsOf(DB, 2, "r1") = {}
    /\ "r1" \notin Unprocessed(1)
    /\ "r1" \in Unprocessed(2)

-----------------------------------------------------------------------------
(* C12: one link per recording and release group *)

Links == { [recording_mbid |-> r, release_group_mbid |-> g] :
           r \in RecordingMbids, g \in ReleaseGroupMbids }

LinkedOnce ==
    \A l \in Links :
        /\ CountIn(recording_release_group, {l}) <= 1
        /\ l \in Rows(recording_release_group) =>
              add_link_recording_release_group(DB, l.recording_mbid,
                                               l.release_group_mbid) = DB

LinksStay ==
    \A l \in Rows(recording_release_group) :
        /\ l \in Rows(recording_release_group')
        /\ CountIn(recording_release_group', {l}) = CountIn(recording_release_group, {l})

\* C12: after any sequence of cache_musicbrainz_metadata calls, with the
\* _add_link_recording_release_group calls they make, each pair (recording_mbid,
\* release_group_mbid) is in at most one row of recording_release_group, linking
\* a linked pair changes nothing, and no step changes or removes a link.
C12_LinkedOnce ==
    /\ []LinkedOnce
    /\ [][LinksStay]_vars

\* Every pair is linked, by calls that also brought r1's meta to its last
\* timestamp.
C12_Witness ==
    /\ Rows(recording_release_group) = Links
    /\ \E m \in Rows(recording_meta) : m.mbid = "r1" /\ m.last_updated = MaxTime

-----------------------------------------------------------------------------
(* C13: add_scraper checks mb_type before it writes *)

\* C13: add_scraper with an mb_type other than recording and release_group
\* raises ValueError and changes no table; with one of the two it adds exactly
\* one scraper row, of a new id, and returns it with that id.  No scraper row
\* of another mb_type is ever stored.
C13_AddScraper ==
    /\ \A r \in Rows(scraper_table) : r.mb_type \in {"recording", "release_group"}
    /\ \A source \in Rows(source_table), mb_type \in MbTypes, version \in Versions :
         LET res == add_scraper(DB, source, "module", mb_type, version, "description")
         IN  IF mb_type \notin {"recording", "release_group"}
             THEN res.ret = Raise("ValueError") /\ res.db = DB
             ELSE /\ res.ret.raises = "none"
                  /\ \E row \in res.ret.value :
                       /\ res.ret.value = {row}
                       /\ row.source_id = source.id
                       /\ row.mb_type = mb_type
                       /\ row.version = version
                       /\ \A o \in Rows(scraper_table) : o.id # row.id
                       /\ res.db.scraper = Insert(scraper_table, row)
                  /\ [res.db EXCEPT !.scraper = scraper_table,
                                    !.scraper_id_seq = scraper_id_seq] = DB

\* Two scrapers are registered, one of each mb_type.
C13_Witness ==
    /\ BagCardinality(scraper_table) = 2
    /\ \E a, b \in Rows(scraper_table) :
         a.id # b.id /\ a.mb_type = "recording" /\ b.mb_type = "release_group"

-----------------------------------------------------------------------------
(* C14: the redirect table *)

\* C14: in every reachable state no redirect row has mbid = new_mbid, each
\* pair (mbid, new_mbid) is in at most one redirect row, and the new_mbid of
\* every redirect row is a known recording; musicbrainz_check_mbid_redirect
\* with query_mbid = actual_mbid, or for a pair that has its row, changes no
\* table.
C14_Redirects ==
    /\ \A r \in Rows(recording_redirect) :
         /\ r.mbid # r.new_mbid
         /\ CountIn(recording_redirect, {r}) = 1
         /\ [mbid |-> r.new_mbid] \in Rows(recording)
         /\ CountIn(recording, {[mbid |-> r.new_mbid]}) = 1
    /\ \A q \in RecordingMbids, a \in RecordingMbids :
         (q = a \/ [mbid |-> q, new_mbid |-> a] \in Rows(recording_redirect))
            => musicbrainz_check_mbid_redirect(DB, q, a) = DB

\* Both redirects between r1 and r2 are recorded.
C14_Witness ==
    /\ CountIn(recording_redirect, {[mbid |-> "r1", new_mbid |-> "r2"]}) = 1
    /\ CountIn(recording_redirect, {[mbid |-> "r2", new_mbid |-> "r1"]}) = 1
    /\ BagCardinality(recording) = 2

-----------------------------------------------------------------------------
(* C15: lookups of what does not exist *)

Absent == {Return({})}

\* load_source of an unknown name, load_latest_scraper_for_source of a source
\* without scrapers and get_token of an unknown token give None or {}.
RegistryLookupsReturnAbsent ==
    /\ \A name \in SourceNames :
         (~ \E r \in Rows(source_table) : r.name = name) => load_source(DB, name) = {}
    /\ \A src \in Rows(source_table) :
         load_scrapers_for_source(DB, src) = {}
            => load_latest_scraper_for_source(DB, {src}) = Absent
    /\ \A t \in TokenStrings :
         (~ \E r \in Rows(token_table) : r.token = t) => get_token(DB, t) = Return({})

\* load_item gives None when the latest scraper of the source has no item for
\* the mbid.
LoadItemWithoutItem ==
    \A name \in SourceNames, sc \in Rows(scraper_table) :
        (/\ Return({sc}) \in load_latest_scraper_for_source(DB, load_source(DB, name))
         /\ ItemsOf(DB, sc.id, "r1") = {})
        => Return({}) \in load_item(DB, "r1", name)

\* load_item gives None when the name is of no source, or of a source without
\* scrapers.
LoadItemWithoutScraper ==
    \A name \in SourceNames :
        (\/ load_source(DB, name) = {}
         \/ \E src \in load_source(DB, name) : load_scrapers_for_source(DB, src) = {})
        => load_item(DB, "r1", name) = Absent

\* C15: the lookups of something that does not exist return an absent or empty
\* result and raise no exception: load_source of an unknown name,
\* load_latest_scraper_for_source of a source without scrapers, get_token of an
\* unknown token, and load_item both when no item exists for the mbid and when
\* source_name is of no source or of a source without scrapers.
C15_LookupsReturnAbsent ==
    /\ RegistryLookupsReturnAbsent
    /\ LoadItemWithoutItem
    /\ LoadItemWithoutScraper

-----------------------------------------------------------------------------
(* C16: the latest scraper of a source *)

\* C16: load_latest_scraper_for_source returns None for a source without
\* scrapers; otherwise every result it may give is a scraper row of that source
\* whose version is not below that of any scraper of the source.
C16_LatestScraper ==
    \A src \in Rows(source_table) :
        LET results == load_latest_scraper_for_source(DB, {src})
            of_src  == {r \in Rows(scraper_table) : r.source_id = src.id}
        IN  IF of_src = {}
            THEN results = Absent
            ELSE /\ results # {}
                 /\ \A res \in results :
                      /\ res.raises = "none"
                      /\ \E r \in of_src :
                           /\ res.value = {r}
                           /\ \A o \in of_src : r.version >= o.version

\* Source 1 has an older and a newer scraper, registered in this order or the
\* other, and source 2 a scraper that is newer than the older one.
C16_Witness ==
    /\ \E a, b \in Rows(scraper_table) :
         a.source_id = 1 /\ b.source_id = 1 /\ a.version < b.version /\ b.id < a.id
    /\ \E c \in Rows(scraper_table) : c.source_id = 2 /\ c.version = 2
    /\ \E src \in Rows(source_table) : src.id = 2

-----------------------------------------------------------------------------
(* C17: add_recording_mbids is idempotent *)

Known(d) == {row.mbid : row \in Rows(d.recording)}

Elements(seq) == {seq[i] : i \in DOMAIN seq}

AddsTheUnknown ==
    /\ \A row \in Rows(recording) : CountIn(recording, {row}) = 1
    /\ \A mbids \in MbidLists :
         LET res == add_recording_mbids(DB, mbids)
         IN  /\ Elements(res.ret) = Elements(mbids) \ Known(DB)
             /\ Len(res.ret) = Cardinality(Elements(res.ret))
             /\ Known(res.db) = Known(DB) \cup Elements(mbids)
             /\ \A row \in Rows(res.db.recording) : CountIn(res.db.recording, {row}) = 1
             /\ [res.db EXCEPT !.recording = recording] = DB
             /\ add_recording_mbids(res.db, mbids) = [db |-> res.db, ret |-> <<>>]

\* C17: add_recording_mbids returns exactly the input mbids that were not
\* known, each once also when the input repeats it; the recording table
\* afterwards holds the mbids known before and the inputs, one row each; the
\* same call again returns nothing and changes nothing; and no step removes a
\* recording row.
C17_AddRecordingMbids ==
    /\ []AddsTheUnknown
    /\ [][Known(DB) \subseteq Known(DB)']_vars

\* r1 is known and r2 is not: a call for both returns r2 only.
C17_Witness ==
    /\ Known(DB) = {"r1"}
    /\ add_recording_mbids(DB, <<"r1", "r2">>).ret = <<"r2">>
    /\ add_recording_mbids(DB, <<"r2", "r2">>).ret = <<"r2">>

-----------------------------------------------------------------------------
(* C18: items are permanent receipts *)

UnprocessedReleaseGroupMbids(d, s) ==
    { row.mbid : row \in get_unprocessed_release_groups_for_scraper(d, [id |-> s], {}) }

ReceiptsKeepOut ==
    \A s \in ScraperIds, m \in ItemMbids :
        ItemsOf(DB, s, m) # {} =>
            /\ m \notin Unprocessed(s)
            /\ m \notin UnprocessedReleaseGroupMbids(DB, s)

ReceiptsStay ==
    /\ \A i \in Rows(item) : CountIn(item', {i}) = CountIn(item, {i})
    /\ \A x \in Rows(item_data) : CountIn(item_data', {x}) = CountIn(item_data, {x})
    /\ \A i \in Rows(item) :
         {x \in Rows(item_data') : x.item_id = i.id} = {x \in Rows(item_data) : x.item_id = i.id}

\* C18: once add_item(S, m) has made an item, no step changes or removes the
\* item row or its item_data, and m is in neither the unprocessed recordings
\* nor the unprocessed release groups of S in any later state.
C18_Receipts ==
    /\ []ReceiptsKeepOut
    /\ [][ReceiptsStay]_vars

\* Scraper 1 has receipts for the recording r1 and the release group g1, both
\* of which are known with meta and unprocessed for scraper 2.
C18_Witness ==
    /\ ItemsOf(DB, 1, "r1") # {}
    /\ ItemsOf(DB, 1, "g1") # {}
    /\ item_data # EmptyBag
    /\ "r1" \in Unprocessed(2)
    /\ "g1" \in UnprocessedReleaseGroupMbids(DB, 2)

-----------------------------------------------------------------------------
(* C19: release group identities and release group meta *)

MetaMbids(d) == {m.mbid : m \in Rows(d.release_group_meta)}

IdentityWithMeta ==
    /\ {row.mbid : row \in Rows(release_group)} = MetaMbids(DB)
    /\ \A g \in MetaMbids(DB) :
         /\ CountIn(release_group, {[mbid |-> g]}) = 1
         /\ CountIn(release_group_meta, {m \in Rows(release_group_meta) : m.mbid = g}) = 1

IdentityOnFirstInsert ==
    \A rg \in ReleaseGroupUpserts :
        LET d1 == add_release_group_meta(DB, rg)
        IN  IF rg.mbid \in MetaMbids(DB)
            THEN d1.release_group = release_group
            ELSE d1.release_group = Insert(release_group, [mbid |-> rg.mbid])

\* C19: in every reachable state the mbids with a release_group row are the
\* mbids with a release_group_meta row, with one row of each, and
\* _add_release_group_meta makes the release_group row exactly when it inserts
\* the first meta row of the mbid, not when it updates or discards.
C19_IdentityWithMeta == IdentityWithMeta /\ IdentityOnFirstInsert

\* Both release groups have their rows; g1's meta has been updated to the last
\* timestamp while g2's is at the first, where an upsert updates it.
C19_Witness ==
    /\ MetaMbids(DB) = ReleaseGroupMbids
    /\ \E m \in Rows(release_group_meta) : m.mbid = "g1" /\ m.last_updated = MaxTime
    /\ \E m \in Rows(release_group_meta) : m.mbid = "g2" /\ m.last_updated = 1

-----------------------------------------------------------------------------
(* C20: redirect chains *)

RedirectRow(q, a) == [mbid |-> q, new_mbid |-> a]

OnlySourcesSuppressed ==
    \A m \in ChainMbids, s \in ScraperIds :
        m \in Unprocessed(s) <=> (Workable(DB, m) /\ ItemsOf(DB, s, m) = {})

ChainsStay ==
    \A a \in ChainMbids, b \in ChainMbids, c \in ChainMbids :
        (a # b /\ b # c) =>
        LET d2 == musicbrainz_check_mbid_redirect(
                      musicbrainz_check_mbid_redirect(DB, a, b), b, c)
        IN  /\ Rows(d2.recording_redirect) =
                  Rows(recording_redirect) \cup {RedirectRow(a, b), RedirectRow(b, c)}
            /\ \A s \in ScraperIds :
                 /\ a \notin UnprocessedMbids(d2, s)
                 /\ b \notin UnprocessedMbids(d2, s)
                 /\ (/\ get_recording_meta(d2, c) # {}
                     /\ ItemsOf(d2, s, c) = {}
                     /\ ~ Redirected(d2, c))
                    => c \in UnprocessedMbids(d2, s)

\* C20: after musicbrainz_check_mbid_redirect(A, B) and (B, C) the redirect
\* table has gained the rows A->B and B->C and no other (no row A->C); A and B
\* are in no scraper's unprocessed recordings; C is in those of S whenever C
\* has recording_meta, no item of S and no redirect row of its own.  The target
\* of a redirect that is not the source of one is never left out for the
\* redirect: a recording is left out exactly for being a source, unknown,
\* without meta or processed.
C20_ChainsNotFlattened == OnlySourcesSuppressed /\ ChainsStay

\* The chain r1 -> r2 -> r3 and nothing else is recorded; all three recordings
\* are known with meta and without items, and only r3 is unprocessed.
C20_Witness ==
    /\ Rows(recording_redirect) = {RedirectRow("r1", "r2"), RedirectRow("r2", "r3")}
    /\ \A m \in ChainMbids : get_recording_meta(DB, m) # {}
    /\ Known(DB) = ChainMbids
    /\ item = EmptyBag
    /\ Unprocessed(1) = {"r3"}
    /\ Unprocessed(2) = {"r3"}

-----------------------------------------------------------------------------
(* C21: the script runner *)

\* A line of the script has failed.
LineFailed == runner.printed # "none" \/ runner.raised # "none"

\* No line after the failed one is executed.
ErrorEndsScript ==
    LineFailed =>
        /\ runner.pc \in {"finally", "done"}
        /\ runner.executed # <<>>
        /\ runner.executed[Len(runner.executed)] = runner.i
        /\ \A k \in DOMAIN runner.executed : runner.executed[k] <= runner.i

\* Empty lines and lines that start with "--" are not executed.
SkipsCommentsAndEmpty ==
    \A k \in DOMAIN runner.executed :
        LET line == runner.lines[runner.executed[k]]
        IN  line # <<>> /\ ~ StartsWithComment(line)

\* The call ends with the isolation level set back and the connection closed.
RestoredAndClosed ==
    runner.pc = "done" => runner.isolation_level = 1 /\ runner.connection = "closed"

\* The failure of a line is printed and the call returns False; no call raises.
ReportsAndReturnsFalse ==
    runner.pc = "done" =>
        /\ runner.raised = "none"
        /\ runner.ret \in {"True", "False"}
        /\ LineFailed => runner.ret = "False" /\ runner.printed # "none"

\* C21: run_sql_script_without_transaction never raises on a store error: for
\* a syntax error, a constraint violation or a lost connection on a line it
\* executes no later line, reports the error and returns False; empty lines
\* and lines starting with "--" are never executed; and on every exit path the
\* isolation level is restored and the connection closed.
C21_ScriptRunner ==
    /\ ErrorEndsScript
    /\ SkipsCommentsAndEmpty
    /\ RestoredAndClosed
    /\ ReportsAndReturnsFalse

-----------------------------------------------------------------------------
(* C22: a stale recording does not gate its release groups *)

\* The release groups the recording is linked to.
LinkedTo(d, recording_mbid) ==
    { l.release_group_mbid : l \in { x \in Rows(d.recording_release_group) :
                                        x.recording_mbid = recording_mbid } }

\* The recording of the call is not newer than the stored one.
Stale(d, rec) ==
    \E e \in get_recording_meta(d, rec.mbid) : e.last_updated >= rec.last_updated

\* The release group meta of rg after a call that upserts it on d.
Reconciled(d, d1, rg) ==
    LET before == get_release_group_meta(d, rg.mbid)
    IN  IF \E e \in before : e.last_updated >= rg.last_updated
        THEN get_release_group_meta(d1, rg.mbid) = before
        ELSE get_release_group_meta(d1, rg.mbid) = {ReleaseGroupMetaRow(rg)}

\* C22: a cache_musicbrainz_metadata call whose recording is not newer than
\* the stored one leaves recording_meta as it is and still reconciles every
\* release group of its map, inserting or updating the meta that is new or
\* newer, and inserts every missing link; every call, stale or not, makes the
\* links of its recording those it had united with its map, so that the links
\* of a recording are the union of the maps of the calls made for it, whatever
\* their timestamps and order.
C22_StaleRecordingStillLinks ==
    \A rec \in MetaInputs :
        LET d1 == cache_musicbrainz_metadata(DB, rec)
        IN  /\ Stale(DB, rec) => d1.recording_meta = recording_meta
            /\ \A g \in DOMAIN rec.release_group_map :
                 Reconciled(DB, d1, rec.release_group_map[g])
            /\ LinkedTo(d1, rec.mbid) =
                  LinkedTo(DB, rec.mbid) \cup DOMAIN rec.release_group_map
            /\ \A r \in RecordingMbids \ {rec.mbid} : LinkedTo(d1, r) = LinkedTo(DB, r)

\* r1 is stored at the last timestamp and linked to g1 only, g2 has no meta:
\* a call for r1 at the first timestamp with g2 in its map leaves r1's meta and
\* adds g2's meta and the link.
C22_Witness ==
    /\ \E e \in get_recording_meta(DB, "r1") : e.last_updated = MaxTime
    /\ LinkedTo(DB, "r1") = {"g1"}
    /\ get_release_group_meta(DB, "g2") = {}
    /\ \E rec \in MetaInputs :
         /\ rec.mbid = "r1" /\ rec.last_updated = 1
         /\ DOMAIN rec.release_group_map = {"g2"}
         /\ LinkedTo(cache_musicbrainz_metadata(DB, rec), "r1") = {"g1", "g2"}
         /\ get_release_group_meta(cache_musicbrainz_metadata(DB, rec), "g2") # {}

====
